---- MODULE Spec2Model ----
(***************************************************************************)
(* TemperatureConverter (src/temperature_converter.py): conversions among *)
(* Celsius, Fahrenheit and Kelvin, the generic convert dispatcher and the *)
(* is_below_absolute_zero predicate.                                      *)
(*                                                                         *)
(* Numbers.  A finite temperature is an integer count of 1/900 degree:    *)
(* 1/900 is the coarsest unit in which the literals of the source         *)
(* (273.15, 459.67, 32) and the quotients by 5 and by 9 of the sampled    *)
(* inputs are all whole, so the arithmetic below is the arithmetic of the *)
(* source carried out without rounding.  A Python float is a finite       *)
(* value, +inf, -inf or nan; a finite result whose magnitude exceeds      *)
(* MaxFloat (standing for sys.float_info.max) becomes an infinity, as in  *)
(* IEEE 754.  The rounding of the last bits of a double is not modelled.  *)
(***************************************************************************)
EXTENDS Integers, Sequences, FiniteSets, TLC

VARIABLES self,    \* the converter instance: its class attributes
          calls    \* caller -> the call it makes and, once returned, its outcome

vars == <<self, calls>>

\* Largest finite magnitude a float holds, in 1/900 degree.
MaxFloat == 1000000000

\* Number of concurrent callers of ConcSpec.
NumCallers == 2

\* A decimal literal with two places, given in hundredths: Dec(27315) is 273.15.
Dec(hundredths) == hundredths * 9

----------------------------------------------------------------------------
\* Python values.

PyFloat(n) == [type |-> "float", cls |-> "fin", v |-> n]
PyInt(n) == [type |-> "int", cls |-> "fin", v |-> n]
PyBool(b) == [type |-> "bool", cls |-> "fin", v |-> IF b THEN Dec(100) ELSE 0]
Inf == [type |-> "float", cls |-> "inf", v |-> 0]
NegInf == [type |-> "float", cls |-> "ninf", v |-> 0]
NaN == [type |-> "float", cls |-> "nan", v |-> 0]
Str == [type |-> "str", cls |-> "na", v |-> 0]
None == [type |-> "NoneType", cls |-> "na", v |-> 0]

\* isinstance(value, (int, float)); bool is a subclass of int.
isinstance_int_float(value) == value.type \in {"int", "float", "bool"}

\* a < b on numbers: false whenever either side is nan.
Less(a, b) ==
    /\ a.cls # "nan"
    /\ b.cls # "nan"
    /\ \/ a.cls = "ninf" /\ b.cls # "ninf"
       \/ b.cls = "inf" /\ a.cls # "inf"
       \/ a.cls = "fin" /\ b.cls = "fin" /\ a.v < b.v

\* The float nearest an exact result n (n within the integers TLC holds).
Overflow(n) ==
    IF n > MaxFloat THEN Inf
    ELSE IF n < -MaxFloat THEN NegInf
    ELSE PyFloat(n)

\* a * k for an int literal k > 0: an int stays an int, a float may overflow.
Mul(a, k) ==
    IF a.cls # "fin" THEN a
    ELSE IF a.type # "float" THEN PyInt(a.v * k)
    ELSE IF a.v > MaxFloat \div k THEN Inf
    ELSE IF a.v < -(MaxFloat \div k) THEN NegInf
    ELSE PyFloat(a.v * k)

\* a / k (true division) for an int literal k > 0: always a float.
Div(a, k) == IF a.cls # "fin" THEN a ELSE PyFloat(a.v \div k)

\* a + d for a float literal d (in 1/900 degree, either sign): always a float.
Add(a, d) == IF a.cls # "fin" THEN a ELSE Overflow(a.v + d)

\* a + d for an int literal d (in 1/900 degree, either sign).
AddInt(a, d) ==
    IF a.cls # "fin" THEN a
    ELSE IF a.type # "float" THEN PyInt(a.v + d)
    ELSE Overflow(a.v + d)

----------------------------------------------------------------------------
\* Outcomes of a call: a returned value or a raised exception, with the
\* methods entered on the way.

Return(value, trace) ==
    [kind |-> "return", msg |-> "", detail |-> "", value |-> value, trace |-> trace]

Raise(kind, msg, detail, trace) ==
    [kind |-> kind, msg |-> msg, detail |-> detail, value |-> None, trace |-> trace]

\* The outcome `inner` of a nested call, seen from the method `name` that made it.
Within(name, inner) == [inner EXCEPT !.trace = <<name>> \o inner.trace]

\* The messages; `detail` is the text the f-string interpolates.
Below == "Temperature cannot be below absolute zero"
NotNumeric == "Temperature value must be numeric"
InvalidSource == "Invalid source unit"
InvalidTarget == "Invalid target unit"
InvalidUnit == "Invalid unit"

----------------------------------------------------------------------------
\* The class.

TemperatureConverter ==
    [ABSOLUTE_ZERO_CELSIUS |-> PyFloat(Dec(-27315)),
     ABSOLUTE_ZERO_FAHRENHEIT |-> PyFloat(Dec(-45967)),
     ABSOLUTE_ZERO_KELVIN |-> PyFloat(0)]

celsius_to_fahrenheit(me, celsius) ==
    IF Less(celsius, me.ABSOLUTE_ZERO_CELSIUS)
    THEN Raise("ValueError", Below, "ABSOLUTE_ZERO_CELSIUS", <<"celsius_to_fahrenheit">>)
    ELSE Return(AddInt(Div(Mul(celsius, 9), 5), Dec(3200)), <<"celsius_to_fahrenheit">>)

\* Mutant of celsius_to_kelvin: the comparison is <= and rejects the threshold.
celsius_to_kelvin_inclusive(me, celsius) ==
    IF ~Less(me.ABSOLUTE_ZERO_CELSIUS, celsius)
    THEN Raise("ValueError", Below, "ABSOLUTE_ZERO_CELSIUS", <<"celsius_to_kelvin">>)
    ELSE Return(Add(celsius, Dec(27315)), <<"celsius_to_kelvin">>)

celsius_to_kelvin(me, celsius) ==
    IF Less(celsius, me.ABSOLUTE_ZERO_CELSIUS)
    THEN Raise("ValueError", Below, "ABSOLUTE_ZERO_CELSIUS", <<"celsius_to_kelvin">>)
    ELSE Return(Add(celsius, Dec(27315)), <<"celsius_to_kelvin">>)

\* Mutant of fahrenheit_to_celsius: the factor 9/5 in place of 5/9.
fahrenheit_to_celsius_inverted(me, fahrenheit) ==
    IF Less(fahrenheit, me.ABSOLUTE_ZERO_FAHRENHEIT)
    THEN Raise("ValueError", Below, "ABSOLUTE_ZERO_FAHRENHEIT", <<"fahrenheit_to_celsius">>)
    ELSE Return(Div(Mul(AddInt(fahrenheit, Dec(-3200)), 9), 5), <<"fahrenheit_to_celsius">>)

fahrenheit_to_celsius(me, fahrenheit) ==
    IF Less(fahrenheit, me.ABSOLUTE_ZERO_FAHRENHEIT)
    THEN Raise("ValueError", Below, "ABSOLUTE_ZERO_FAHRENHEIT", <<"fahrenheit_to_celsius">>)
    ELSE Return(Div(Mul(AddInt(fahrenheit, Dec(-3200)), 5), 9), <<"fahrenheit_to_celsius">>)

\* Mutant of fahrenheit_to_kelvin: a formula of its own, (F + 459.67) * 5/9,
\* in place of the two conversions through Celsius.
fahrenheit_to_kelvin_direct(me, fahrenheit) ==
    IF Less(fahrenheit, me.ABSOLUTE_ZERO_FAHRENHEIT)
    THEN Raise("ValueError", Below, "ABSOLUTE_ZERO_FAHRENHEIT", <<"fahrenheit_to_kelvin">>)
    ELSE Return(Div(Mul(Add(fahrenheit, Dec(45967)), 5), 9), <<"fahrenheit_to_kelvin">>)

fahrenheit_to_kelvin(me, fahrenheit) ==
    IF Less(fahrenheit, me.ABSOLUTE_ZERO_FAHRENHEIT)
    THEN Raise("ValueError", Below, "ABSOLUTE_ZERO_FAHRENHEIT", <<"fahrenheit_to_kelvin">>)
    ELSE LET celsius == fahrenheit_to_celsius(me, fahrenheit)
         IN  IF celsius.kind # "return"
             THEN Within("fahrenheit_to_kelvin", celsius)
             ELSE LET kelvin == celsius_to_kelvin(me, celsius.value)
                  IN  [kelvin EXCEPT !.trace =
                          <<"fahrenheit_to_kelvin">> \o celsius.trace \o kelvin.trace]

kelvin_to_celsius(me, kelvin) ==
    IF Less(kelvin, me.ABSOLUTE_ZERO_KELVIN)
    THEN Raise("ValueError", Below, "ABSOLUTE_ZERO_KELVIN", <<"kelvin_to_celsius">>)
    ELSE Return(Add(kelvin, Dec(-27315)), <<"kelvin_to_celsius">>)

kelvin_to_fahrenheit(me, kelvin) ==
    IF Less(kelvin, me.ABSOLUTE_ZERO_KELVIN)
    THEN Raise("ValueError", Below, "ABSOLUTE_ZERO_KELVIN", <<"kelvin_to_fahrenheit">>)
    ELSE LET celsius == kelvin_to_celsius(me, kelvin)
         IN  IF celsius.kind # "return"
             THEN Within("kelvin_to_fahrenheit", celsius)
             ELSE LET fahrenheit == celsius_to_fahrenheit(me, celsius.value)
                  IN  [fahrenheit EXCEPT !.trace =
                          <<"kelvin_to_fahrenheit">> \o celsius.trace \o fahrenheit.trace]

\* str.upper() on the unit symbols sampled.  "U+00DF" stands for the sharp s,
\* whose upper case is "SS"; "U+212A" stands for the KELVIN SIGN, an upper-case
\* letter that is not "K" (its lower case is "k").
upper(s) ==
    CASE s = "c" -> "C"
      [] s = "f" -> "F"
      [] s = "k" -> "K"
      [] s = "x" -> "X"
      [] s = "z" -> "Z"
      [] s = "ss" -> "SS"
      [] s = "U+00DF" -> "SS"
      [] OTHER -> s

valid_units == {"C", "F", "K"}

\* Mutant of conversion_func: the two entries from Kelvin are exchanged.
conversion_func_exchanged(me, from_unit, to_unit, value) ==
    CASE <<from_unit, to_unit>> = <<"C", "F">> -> celsius_to_fahrenheit(me, value)
      [] <<from_unit, to_unit>> = <<"C", "K">> -> celsius_to_kelvin(me, value)
      [] <<from_unit, to_unit>> = <<"F", "C">> -> fahrenheit_to_celsius(me, value)
      [] <<from_unit, to_unit>> = <<"F", "K">> -> fahrenheit_to_kelvin(me, value)
      [] <<from_unit, to_unit>> = <<"K", "C">> -> kelvin_to_fahrenheit(me, value)
      [] <<from_unit, to_unit>> = <<"K", "F">> -> kelvin_to_celsius(me, value)
      [] OTHER -> Raise("TypeError", "'NoneType' object is not callable", "", <<>>)

\* conversions.get((from_unit, to_unit)) applied to value; a pair without an
\* entry yields None, and calling None raises TypeError.
conversion_func(me, from_unit, to_unit, value) ==
    CASE <<from_unit, to_unit>> = <<"C", "F">> -> celsius_to_fahrenheit(me, value)
      [] <<from_unit, to_unit>> = <<"C", "K">> -> celsius_to_kelvin(me, value)
      [] <<from_unit, to_unit>> = <<"F", "C">> -> fahrenheit_to_celsius(me, value)
      [] <<from_unit, to_unit>> = <<"F", "K">> -> fahrenheit_to_kelvin(me, value)
      [] <<from_unit, to_unit>> = <<"K", "C">> -> kelvin_to_celsius(me, value)
      [] <<from_unit, to_unit>> = <<"K", "F">> -> kelvin_to_fahrenheit(me, value)
      [] OTHER -> Raise("TypeError", "'NoneType' object is not callable", "", <<>>)

\* Mutant of convert: the units are validated before the value's type.
convert_units_first(me, value, from_unit, to_unit) ==
    LET from == upper(from_unit)
        to == upper(to_unit)
    IN  IF from \notin valid_units
        THEN Raise("ValueError", InvalidSource, from, <<"convert">>)
        ELSE IF to \notin valid_units
        THEN Raise("ValueError", InvalidTarget, to, <<"convert">>)
        ELSE IF ~isinstance_int_float(value)
        THEN Raise("TypeError", NotNumeric, value.type, <<"convert">>)
        ELSE IF from = to
        THEN Return(value, <<"convert">>)
        ELSE Within("convert", conversion_func(me, from, to, value))

\* Mutant of convert: the same-unit path checks the value against the unit's
\* threshold before returning it.
convert_checked_identity(me, value, from_unit, to_unit) ==
    IF ~isinstance_int_float(value)
    THEN Raise("TypeError", NotNumeric, value.type, <<"convert">>)
    ELSE LET from == upper(from_unit)
             to == upper(to_unit)
         IN  IF from \notin valid_units
             THEN Raise("ValueError", InvalidSource, from, <<"convert">>)
             ELSE IF to \notin valid_units
             THEN Raise("ValueError", InvalidTarget, to, <<"convert">>)
             ELSE IF from = to
             THEN IF Less(value, IF from = "C" THEN me.ABSOLUTE_ZERO_CELSIUS
                                 ELSE IF from = "F" THEN me.ABSOLUTE_ZERO_FAHRENHEIT
                                 ELSE me.ABSOLUTE_ZERO_KELVIN)
                  THEN Raise("ValueError", Below, "", <<"convert">>)
                  ELSE Return(value, <<"convert">>)
             ELSE Within("convert", conversion_func(me, from, to, value))

\* Mutant of convert: to_unit is not normalized to upper case.
convert_target_as_given(me, value, from_unit, to_unit) ==
    IF ~isinstance_int_float(value)
    THEN Raise("TypeError", NotNumeric, value.type, <<"convert">>)
    ELSE LET from == upper(from_unit)
             to == to_unit
         IN  IF from \notin valid_units
             THEN Raise("ValueError", InvalidSource, from, <<"convert">>)
             ELSE IF to \notin valid_units
             THEN Raise("ValueError", InvalidTarget, to, <<"convert">>)
             ELSE IF from = to
             THEN Return(value, <<"convert">>)
             ELSE Within("convert", conversion_func(me, from, to, value))

convert(me, value, from_unit, to_unit) ==
    IF ~isinstance_int_float(value)
    THEN Raise("TypeError", NotNumeric, value.type, <<"convert">>)
    ELSE LET from == upper(from_unit)
             to == upper(to_unit)
         IN  IF from \notin valid_units
             THEN Raise("ValueError", InvalidSource, from, <<"convert">>)
             ELSE IF to \notin valid_units
             THEN Raise("ValueError", InvalidTarget, to, <<"convert">>)
             ELSE IF from = to
             THEN Return(value, <<"convert">>)
             ELSE Within("convert", conversion_func(me, from, to, value))

\* Mutant of less_than: the comparison is <=.
less_than_or_equal(value, threshold) ==
    IF isinstance_int_float(value)
    THEN Return(PyBool(value.cls # "nan" /\ ~Less(threshold, value)),
                <<"is_below_absolute_zero">>)
    ELSE Raise("TypeError", "'<' not supported", value.type, <<"is_below_absolute_zero">>)

\* value < threshold as is_below_absolute_zero evaluates it: Python raises
\* TypeError when value is a str or None.
less_than(value, threshold) ==
    IF isinstance_int_float(value)
    THEN Return(PyBool(Less(value, threshold)), <<"is_below_absolute_zero">>)
    ELSE Raise("TypeError", "'<' not supported", value.type, <<"is_below_absolute_zero">>)

is_below_absolute_zero(me, value, unit) ==
    LET u == upper(unit)
    IN  IF u = "C" THEN less_than(value, me.ABSOLUTE_ZERO_CELSIUS)
        ELSE IF u = "F" THEN less_than(value, me.ABSOLUTE_ZERO_FAHRENHEIT)
        ELSE IF u = "K" THEN less_than(value, me.ABSOLUTE_ZERO_KELVIN)
        ELSE Raise("ValueError", InvalidUnit, u, <<"is_below_absolute_zero">>)

\* Mutant of instance_after: the method keeps its argument in an attribute.
instance_after_keeping(me, call) == [me EXCEPT !.ABSOLUTE_ZERO_KELVIN = call.value]

\* The instance after a call: no method assigns to an attribute.
instance_after(me, call) == me

----------------------------------------------------------------------------
\* Inputs.

\* A float so large that nine times it overflows, as 1e308 does.  The model
\* keeps the order of the magnitudes (every threshold and test value is far
\* below MaxFloat / 9 < Huge < MaxFloat), not their ratio.
Huge == PyFloat(MaxFloat \div 2)

\* Finite floats, in 1/900 degree: below, at and above each threshold, the
\* values of the tests, and 100000 degrees.
FiniteFloats ==
    {PyFloat(n) : n \in {Dec(-50000), Dec(-45968), Dec(-45967), Dec(-45966),
                         Dec(-30000), Dec(-27320), Dec(-27315), Dec(-27310),
                         Dec(-4000), Dec(-5), 0, Dec(5), Dec(2500), Dec(3200),
                         Dec(10000), Dec(21200), Dec(27315), Dec(29315),
                         Dec(30000), Dec(37315), Dec(10000000)}}

Ints == {PyInt(n) : n \in {Dec(-50000), Dec(-30000), Dec(-100), 0, Dec(2500), Dec(10000)}}

Numbers == FiniteFloats \cup Ints \cup {Huge, Inf, NegInf, NaN, PyBool(TRUE)}

Values == Numbers \cup {Str, None}

UnitSymbols == {"C", "F", "K", "c", "f", "k", "X", "x", "Z", "", "U+00DF", "U+212A"}

----------------------------------------------------------------------------
\* Calls and callers.

Call(op, value, from_unit, to_unit) ==
    [op |-> op, value |-> value, from_unit |-> from_unit, to_unit |-> to_unit]

NoCall == Call("", None, "", "")
NoOutcome == Raise("", "", "", <<>>)

Idle == [pc |-> "idle", call |-> NoCall, outcome |-> NoOutcome]
Called(call) == [pc |-> "called", call |-> call, outcome |-> NoOutcome]
Done(call, outcome) == [pc |-> "done", call |-> call, outcome |-> outcome]

\* The method a call names, applied to the call's arguments.
invoke(me, call) ==
    CASE call.op = "celsius_to_fahrenheit" -> celsius_to_fahrenheit(me, call.value)
      [] call.op = "celsius_to_kelvin" -> celsius_to_kelvin(me, call.value)
      [] call.op = "fahrenheit_to_celsius" -> fahrenheit_to_celsius(me, call.value)
      [] call.op = "fahrenheit_to_kelvin" -> fahrenheit_to_kelvin(me, call.value)
      [] call.op = "kelvin_to_celsius" -> kelvin_to_celsius(me, call.value)
      [] call.op = "kelvin_to_fahrenheit" -> kelvin_to_fahrenheit(me, call.value)
      [] call.op = "convert" -> convert(me, call.value, call.from_unit, call.to_unit)
      [] call.op = "is_below_absolute_zero" ->
             is_below_absolute_zero(me, call.value, call.from_unit)

\* One caller (caller 0) makes a call and gets its outcome.
Perform(call, outcome) ==
    /\ calls[0].pc = "idle"
    /\ calls' = [calls EXCEPT ![0] = Done(call, outcome)]
    /\ self' = instance_after(self, call)

CelsiusToFahrenheit ==
    \E celsius \in Numbers :
        Perform(Call("celsius_to_fahrenheit", celsius, "", ""),
                celsius_to_fahrenheit(self, celsius))

CelsiusToKelvin ==
    \E celsius \in Numbers :
        Perform(Call("celsius_to_kelvin", celsius, "", ""),
                celsius_to_kelvin(self, celsius))

FahrenheitToCelsius ==
    \E fahrenheit \in Numbers :
        Perform(Call("fahrenheit_to_celsius", fahrenheit, "", ""),
                fahrenheit_to_celsius(self, fahrenheit))

FahrenheitToKelvin ==
    \E fahrenheit \in Numbers :
        Perform(Call("fahrenheit_to_kelvin", fahrenheit, "", ""),
                fahrenheit_to_kelvin(self, fahrenheit))

KelvinToCelsius ==
    \E kelvin \in Numbers :
        Perform(Call("kelvin_to_celsius", kelvin, "", ""),
                kelvin_to_celsius(self, kelvin))

KelvinToFahrenheit ==
    \E kelvin \in Numbers :
        Perform(Call("kelvin_to_fahrenheit", kelvin, "", ""),
                kelvin_to_fahrenheit(self, kelvin))

Convert ==
    \E value \in Values, from_unit \in UnitSymbols, to_unit \in UnitSymbols :
        Perform(Call("convert", value, from_unit, to_unit),
                convert(self, value, from_unit, to_unit))

IsBelowAbsoluteZero ==
    \E value \in Values, unit \in UnitSymbols :
        Perform(Call("is_below_absolute_zero", value, unit, ""),
                is_below_absolute_zero(self, value, unit))

Init ==
    /\ self = TemperatureConverter
    /\ calls = [p \in {0} |-> Idle]

Next ==
    \/ CelsiusToFahrenheit
    \/ CelsiusToKelvin
    \/ FahrenheitToCelsius
    \/ FahrenheitToKelvin
    \/ KelvinToCelsius
    \/ KelvinToFahrenheit
    \/ Convert
    \/ IsBelowAbsoluteZero

Spec == Init /\ [][Next]_vars

----------------------------------------------------------------------------
\* Concurrent callers sharing one converter: a call begins (its arguments are
\* bound) and later finishes, other callers' steps falling in between.

Callers == 1 .. NumCallers

ConcValues == {PyFloat(Dec(-30000)), PyFloat(0)}

ConcCalls ==
    {Call(op, value, "", "") :
        op \in {"celsius_to_fahrenheit", "celsius_to_kelvin", "fahrenheit_to_celsius",
                "fahrenheit_to_kelvin", "kelvin_to_celsius", "kelvin_to_fahrenheit"},
        value \in ConcValues}
    \cup {Call("convert", value, u[1], u[2]) :
        value \in ConcValues, u \in {<<"C", "F">>, <<"k", "K">>, <<"X", "C">>}}
    \cup {Call("convert", Str, "C", "F")}
    \cup {Call("is_below_absolute_zero", value, "K", "") : value \in ConcValues}

Begin(p) ==
    /\ calls[p].pc = "idle"
    /\ \E call \in ConcCalls : calls' = [calls EXCEPT ![p] = Called(call)]
    /\ UNCHANGED self

Finish(p) ==
    /\ calls[p].pc = "called"
    /\ calls' = [calls EXCEPT ![p] = Done(calls[p].call, invoke(self, calls[p].call))]
    /\ self' = instance_after(self, calls[p].call)

ConcInit ==
    /\ self = TemperatureConverter
    /\ calls = [p \in Callers |-> Idle]

ConcNext == \E p \in Callers : Begin(p) \/ Finish(p)

ConcSpec == ConcInit /\ [][ConcNext]_vars

\* The callers whose call has returned or raised.
Finished == {p \in DOMAIN calls : calls[p].pc = "done"}

----------------------------------------------------------------------------
\* The vocabulary of the properties below, stated apart from the methods.

\* The absolute-zero threshold of a scale: Celsius -273.15, Fahrenheit -459.67,
\* Kelvin 0.
AbsoluteZero(unit) ==
    CASE unit = "C" -> PyFloat(Dec(-27315))
      [] unit = "F" -> PyFloat(Dec(-45967))
      [] unit = "K" -> PyFloat(0)

AttributeOf(unit) ==
    CASE unit = "C" -> "ABSOLUTE_ZERO_CELSIUS"
      [] unit = "F" -> "ABSOLUTE_ZERO_FAHRENHEIT"
      [] unit = "K" -> "ABSOLUTE_ZERO_KELVIN"

ScaleName(unit) ==
    CASE unit = "C" -> "celsius"
      [] unit = "F" -> "fahrenheit"
      [] unit = "K" -> "kelvin"

\* The pairwise operation from one scale to another, by its name.
PairwiseName(from, to) == ScaleName(from) \o "_to_" \o ScaleName(to)

Pairs == {pair \in {"C", "F", "K"} \X {"C", "F", "K"} : pair[1] # pair[2]}

PairOf(op) == CHOOSE pair \in Pairs : PairwiseName(pair[1], pair[2]) = op

PairwiseOps == {PairwiseName(pair[1], pair[2]) : pair \in Pairs}

\* The scale a unit symbol names in either letter case; "" when it names none.
ScaleOf(symbol) ==
    CASE symbol \in {"C", "c"} -> "C"
      [] symbol \in {"F", "f"} -> "F"
      [] symbol \in {"K", "k"} -> "K"
      [] OTHER -> ""

IsUnit(symbol) == ScaleOf(symbol) # ""

IsNumeric(value) == value.type \in {"int", "float", "bool"}

\* a >= b on numbers.
AtLeast(a, b) == a.cls # "nan" /\ b.cls # "nan" /\ ~Less(a, b)

IsBelowError(outcome, unit) ==
    /\ outcome.kind = "ValueError"
    /\ outcome.msg = Below
    /\ outcome.detail = AttributeOf(unit)

\* What the caller observes of an outcome: the value returned or the error raised.
Observed(outcome) == [outcome EXCEPT !.trace = <<>>]

----------------------------------------------------------------------------
\* C1: no operation (the six pairwise conversions, and convert with any pair of
\* valid units, equal units included) returns a value strictly below the
\* absolute zero of the unit its result is expressed in.
C1_NeverReturnsBelowAbsoluteZero ==
    \A p \in Finished :
        LET call == calls[p].call
            outcome == calls[p].outcome
            target == IF call.op = "convert" THEN ScaleOf(call.to_unit)
                      ELSE PairOf(call.op)[2]
        IN  /\ \/ call.op \in PairwiseOps
               \/ call.op = "convert" /\ IsUnit(call.from_unit) /\ IsUnit(call.to_unit)
            /\ outcome.kind = "return"
            => ~Less(outcome.value, AbsoluteZero(target))

\* C2: a pairwise conversion fails with the below-absolute-zero error exactly
\* when its input is strictly below the threshold of its source unit; at the
\* threshold and above it, it returns a value.
C2_FailsIffBelowSourceThreshold ==
    \A p \in Finished :
        LET call == calls[p].call
            outcome == calls[p].outcome
        IN  call.op \in PairwiseOps =>
                LET source == PairOf(call.op)[1]
                IN  IF Less(call.value, AbsoluteZero(source))
                    THEN IsBelowError(outcome, source)
                    ELSE outcome.kind = "return" /\ IsNumeric(outcome.value)

\* C2 witness: a conversion to Kelvin (fahrenheit_to_kelvin or
\* celsius_to_kelvin) has returned 0.0 for an input exactly at its source
\* unit's threshold.
C2_Witness ==
    \E p \in Finished :
        /\ calls[p].call.op \in {"fahrenheit_to_kelvin", "celsius_to_kelvin"}
        /\ calls[p].call.value = AbsoluteZero(PairOf(calls[p].call.op)[1])
        /\ calls[p].outcome.kind = "return"
        /\ calls[p].outcome.value = PyFloat(0)

\* C3: convert validates in a fixed order and reports the first failure only:
\* the value's type, then the source unit, then the target unit; the
\* below-absolute-zero error is raised only when both units are valid.
C3_ValidationOrder ==
    \A p \in Finished :
        LET call == calls[p].call
            outcome == calls[p].outcome
        IN  call.op = "convert" =>
                /\ ~IsNumeric(call.value) <=>
                       outcome.kind = "TypeError" /\ outcome.msg = NotNumeric
                /\ IsNumeric(call.value) /\ ~IsUnit(call.from_unit) <=>
                       outcome.kind = "ValueError" /\ outcome.msg = InvalidSource
                /\ IsNumeric(call.value) /\ IsUnit(call.from_unit) /\ ~IsUnit(call.to_unit) <=>
                       outcome.kind = "ValueError" /\ outcome.msg = InvalidTarget
                /\ outcome.msg = Below =>
                       IsNumeric(call.value) /\ IsUnit(call.from_unit) /\ IsUnit(call.to_unit)

\* C3 witness: a call with a value below absolute zero, an invalid source and an
\* invalid target has raised the source-unit error.
C3_Witness ==
    \E p \in Finished :
        /\ calls[p].call.op = "convert"
        /\ ~IsUnit(calls[p].call.from_unit)
        /\ ~IsUnit(calls[p].call.to_unit)
        /\ calls[p].call.value = NegInf
        /\ calls[p].outcome.msg = InvalidSource

C5_DispatchMatchesPairwise ==
    \A p \in Finished :
        LET call == calls[p].call
            outcome == calls[p].outcome
            from == ScaleOf(call.from_unit)
            to == ScaleOf(call.to_unit)
        IN  /\ call.op = "convert"
            /\ IsNumeric(call.value)
            /\ IsUnit(call.from_unit)
            /\ IsUnit(call.to_unit)
            /\ from # to
            => LET direct == invoke(self, Call(PairwiseName(from, to), call.value, "", ""))
               IN  /\ Observed(outcome) = Observed(direct)
                   /\ outcome.trace = <<"convert">> \o direct.trace
                   /\ outcome.trace[2] = PairwiseName(from, to)
                   /\ IsBelowError(outcome, from) <=> Less(call.value, AbsoluteZero(from))
                   /\ outcome.kind = "return" <=> ~Less(call.value, AbsoluteZero(from))

\* C5 witness: convert from Kelvin to Fahrenheit has returned a value that is
\* below the Celsius threshold, which is not consulted.
C5_Witness ==
    \E p \in Finished :
        /\ calls[p].call.op = "convert"
        /\ calls[p].call.from_unit = "K"
        /\ calls[p].call.to_unit = "f"
        /\ calls[p].outcome.kind = "return"
        /\ Less(calls[p].outcome.value, AbsoluteZero("C"))

\* str.lower() on the unit symbols sampled.
lower(s) ==
    CASE s = "C" -> "c"
      [] s = "F" -> "f"
      [] s = "K" -> "k"
      [] s = "X" -> "x"
      [] s = "Z" -> "z"
      [] s = "SS" -> "ss"
      [] s = "U+212A" -> "k"
      [] OTHER -> s

\* The same value returned, or the same kind of error raised.
SameOutcome(a, b) == a.kind = b.kind /\ a.msg = b.msg /\ a.value = b.value

\* The outcome of a call is the outcome of the same call with its source symbol
\* replaced by `from_unit`, and with its target symbol replaced by `to_unit`.
Insensitive(call, outcome, from_unit, to_unit) ==
    IF call.op = "convert"
    THEN /\ SameOutcome(outcome, convert(self, call.value, from_unit, call.to_unit))
         /\ SameOutcome(outcome, convert(self, call.value, call.from_unit, to_unit))
    ELSE SameOutcome(outcome, is_below_absolute_zero(self, call.value, from_unit))

\* C6 as stated: convert and is_below_absolute_zero give the same outcome when
\* a unit symbol is replaced by its lower-case or by its upper-case form.
C6_CaseInsensitive ==
    \A p \in Finished :
        LET call == calls[p].call
            outcome == calls[p].outcome
        IN  call.op \in {"convert", "is_below_absolute_zero"} =>
                /\ Insensitive(call, outcome, upper(call.from_unit), upper(call.to_unit))
                /\ Insensitive(call, outcome, lower(call.from_unit), lower(call.to_unit))

\* C6 amended: the outcome is the same when a unit symbol is replaced by its
\* upper-case form, and by its lower-case form unless the symbol is the KELVIN
\* SIGN (U+212A), whose lower case is "k" and whose upper case is not "K".
C6_CaseInsensitiveButKelvinSign ==
    \A p \in Finished :
        LET call == calls[p].call
            outcome == calls[p].outcome
            from_lower == IF call.from_unit = "U+212A" THEN call.from_unit
                          ELSE lower(call.from_unit)
            to_lower == IF call.to_unit = "U+212A" THEN call.to_unit
                        ELSE lower(call.to_unit)
        IN  call.op \in {"convert", "is_below_absolute_zero"} =>
                /\ Insensitive(call, outcome, upper(call.from_unit), upper(call.to_unit))
                /\ Insensitive(call, outcome, from_lower, to_lower)

\* C6 witness: convert(0, 'c', 'f') has returned 32.0.
C6_Witness ==
    \E p \in Finished :
        /\ calls[p].call = Call("convert", PyInt(0), "c", "f")
        /\ calls[p].outcome.kind = "return"
        /\ calls[p].outcome.value = PyFloat(Dec(3200))

\* Equal within 1e-6 degree, which is less than one unit of 1/900 degree.
Tolerance == 900 \div 1000000

Abs(n) == IF n < 0 THEN -n ELSE n

Approx(a, b) ==
    /\ a.cls = b.cls
    /\ a.cls # "nan"
    /\ a.cls = "fin" => Abs(a.v - b.v) <= Tolerance

\* Largest input of the amended round trip: 100000 degrees.
RoundTripMax == PyFloat(Dec(10000000))

\* The round trip of a finished forward conversion: it returned, the inverse
\* conversion of its result returns, and that value is the input again.
RoundTrips(call, outcome) ==
    LET back == IF call.op = "celsius_to_fahrenheit"
                THEN fahrenheit_to_celsius(self, outcome.value)
                ELSE celsius_to_kelvin(self, outcome.value)
    IN  /\ outcome.kind = "return"
        /\ back.kind = "return"
        /\ Approx(back.value, call.value)

Forward(call) ==
    \/ call.op = "celsius_to_fahrenheit" /\ AtLeast(call.value, AbsoluteZero("C"))
    \/ call.op = "kelvin_to_celsius" /\ AtLeast(call.value, AbsoluteZero("K"))

C8_IsBelowAbsoluteZero ==
    \A p \in Finished :
        LET call == calls[p].call
            outcome == calls[p].outcome
        IN  call.op = "is_below_absolute_zero" =>
                /\ outcome.kind = "ValueError" /\ outcome.msg = InvalidUnit <=>
                       ~IsUnit(call.from_unit)
                /\ outcome.msg # Below
                /\ IsNumeric(call.value) /\ IsUnit(call.from_unit) =>
                       /\ outcome.kind = "return"
                       /\ outcome.value =
                              PyBool(Less(call.value, AbsoluteZero(ScaleOf(call.from_unit))))

\* C8 witness: is_below_absolute_zero(-459.67, 'f') has returned False.
C8_Witness ==
    \E p \in Finished :
        /\ calls[p].call = Call("is_below_absolute_zero", AbsoluteZero("F"), "f", "")
        /\ calls[p].outcome.kind = "return"
        /\ calls[p].outcome.value = PyBool(FALSE)

\* C9: a composite conversion of an input at or above its source threshold
\* enters the two conversions through Celsius in turn and returns their
\* result, the Celsius value being at or above -273.15; below the threshold it
\* raises its own unit's error before entering either.
C9_CompositeThroughCelsius ==
    \A p \in Finished :
        LET call == calls[p].call
            outcome == calls[p].outcome
        IN  call.op \in {"fahrenheit_to_kelvin", "kelvin_to_fahrenheit"} =>
                LET source == PairOf(call.op)[1]
                    target == PairOf(call.op)[2]
                    first == PairwiseName(source, "C")
                    second == PairwiseName("C", target)
                    celsius == invoke(self, Call(first, call.value, "", ""))
                    result == invoke(self, Call(second, celsius.value, "", ""))
                IN  /\ AtLeast(call.value, AbsoluteZero(source)) =>
                           /\ celsius.kind = "return"
                           /\ AtLeast(celsius.value, AbsoluteZero("C"))
                           /\ result.kind = "return"
                           /\ outcome.kind = "return"
                           /\ outcome.value = result.value
                           /\ outcome.trace = <<call.op, first, second>>
                    /\ Less(call.value, AbsoluteZero(source)) =>
                           /\ IsBelowError(outcome, source)
                           /\ outcome.trace = <<call.op>>

\* C9 witness: kelvin_to_fahrenheit(0.0) has returned -459.67 by way of
\* kelvin_to_celsius and celsius_to_fahrenheit.
C9_Witness ==
    \E p \in Finished :
        /\ calls[p].call = Call("kelvin_to_fahrenheit", PyFloat(0), "", "")
        /\ calls[p].outcome.value = AbsoluteZero("F")
        /\ Len(calls[p].outcome.trace) = 3

\* C10: whatever the interleaving of the callers, no call changes the
\* converter, and the outcome of every finished call is the outcome of that
\* call made alone on a fresh converter.
C10_OutcomeOfOwnArgumentsOnly ==
    /\ self = TemperatureConverter
    /\ \A p \in Finished :
           calls[p].outcome = invoke(TemperatureConverter, calls[p].call)

\* C10 witness: one caller's call has failed while another caller's call is
\* in flight.
C10_Witness ==
    \E p \in Finished, q \in DOMAIN calls :
        /\ calls[p].outcome.kind # "return"
        /\ calls[q].pc = "called"

====
